---- MODULE Spec2Model ----
(***************************************************************************)
(* State-machine model of the tiktok-gofun Scraper: the browser-backed     *)
(* sign-and-fetch path with its readiness flag and context mutex, the      *)
(* per-class throttle, the cursor pagination of SearchVideos and           *)
(* SearchByHashtag, and the direct HTTP path of GetUser.                   *)
(*                                                                         *)
(* Callers are goroutines (Procs) that each run one public operation at a  *)
(* time; one more goroutine (the owner) runs InitBrowser, the logins, the  *)
(* cookie operations and Close.  Every action is one step of a handler     *)
(* between two accesses to shared state.                                   *)
(***************************************************************************)
EXTENDS Integers, Sequences, FiniteSets, TLC

\* ------------------------------------------------------------------ bounds

\* Most records the remote puts on one page.
MaxPage == 2
\* Largest result limit a caller asks for.
MaxLimit == 2
\* Largest cursor value the remote returns.
MaxCursor == 1
\* Most page fetches one walker call is followed through.
MaxFetch == 3
\* Last instant of the model clock.
MaxTime == 4
\* Largest configured class interval, in clock ticks.
MaxDelay == 2
\* Most browsers launched in one run.
MaxLaunch == 1
\* Most browsers launched in a run in which InitBrowser is called again.
MaxRelaunch == 2

\* rand.Int64N(500ms): the jitter is drawn from 0 .. JitterMax-1 ticks.
JitterMax == 2

Procs == {"p1", "p2"}

Classes == {"search", "profile"}

NoOne == "none"

\* The cookies followed in the jar: the rotating token and a session cookie.
CookieNames == {"msToken", "sessionid"}

\* The values a cookie handed to SetCookies can have.
CookieValues == {1, 2}

\* A cookie set: name -> value, 0 for a name that is not in the set.
CookieSets == [CookieNames -> {0} \cup CookieValues]

NoCookies == [c \in CookieNames |-> 0]

\* defaultTransport(): pooled connections, dialled directly.
DefaultTransport == [via |-> "direct", addr |-> ""]

\* The arguments SetProxy is called with: the empty string, one URL of each
\* accepted scheme, one of another scheme, and one url.Parse rejects.
ProxyArgs == {"", "http://h:1", "https://h:2", "socks5://h:3", "ftp://h:4", "://bad"}

\* url.Parse on a proxy argument: whether it parses, and the scheme it carries.
ParseProxy(a) ==
    CASE a = "http://h:1"   -> [ok |-> TRUE,  scheme |-> "http"]
      [] a = "https://h:2"  -> [ok |-> TRUE,  scheme |-> "https"]
      [] a = "socks5://h:3" -> [ok |-> TRUE,  scheme |-> "socks5"]
      [] a = "ftp://h:4"    -> [ok |-> TRUE,  scheme |-> "ftp"]
      [] OTHER              -> [ok |-> FALSE, scheme |-> ""]

\* A SetProxy that assigns the address before it looks at the scheme.
SetProxyAssignsFirst(cur, a) ==
    LET u == ParseProxy(a) IN
    IF a = "" THEN [proxy |-> "", transport |-> DefaultTransport, err |-> FALSE]
    ELSE IF ~u.ok THEN [proxy |-> cur.proxy, transport |-> cur.transport, err |-> TRUE]
    ELSE [proxy |-> a,
          transport |-> IF u.scheme = "socks5" THEN [via |-> "socks5", addr |-> a]
                        ELSE IF u.scheme \in {"http", "https"}
                             THEN [via |-> "proxy", addr |-> a]
                        ELSE cur.transport,
          err |-> u.scheme \notin {"http", "https", "socks5"}]

\* SetProxy as a function of the Scraper's proxy fields and the argument: the
\* fields it leaves and whether it returns an error.  Every error return comes
\* before the first assignment.  proxy.SOCKS5 builds a dialer without
\* connecting, so the socks5 branch assigns like the http branch.
SetProxyResult(cur, a) ==
    LET u == ParseProxy(a) IN
    IF a = "" THEN [proxy |-> "", transport |-> DefaultTransport, err |-> FALSE]
    ELSE IF ~u.ok THEN [proxy |-> cur.proxy, transport |-> cur.transport, err |-> TRUE]
    ELSE IF u.scheme \in {"http", "https"}
         THEN [proxy |-> a, transport |-> [via |-> "proxy", addr |-> a], err |-> FALSE]
    ELSE IF u.scheme = "socks5"
         THEN [proxy |-> a, transport |-> [via |-> "socks5", addr |-> a], err |-> FALSE]
    ELSE [proxy |-> cur.proxy, transport |-> cur.transport, err |-> TRUE]

\* The sentinel an error matches under errors.Is ("IO": an error of the file
\* system, as os.ReadFile returns; "Other": none of them).
Errors == {"nil", "Required", "RateLimited", "NotFound", "SigningFailed",
           "BrowserNotReady", "InvalidResponse", "IO", "Other"}

VARIABLES
    \* ---- Scraper fields
    browser,        \* s.browser: 0 = nil, else the id of the launched browser
    page,           \* s.page: "nil" or "open"
    browserMu,      \* holder of s.browserMu, or NoOne
    signingReady,   \* s.signingReady
    isLogged,       \* s.isLogged
    msToken,        \* s.msToken: 0 = "", else a token value
    delay,          \* [class -> s.searchDelay / s.profileDelay]
    lastReq,        \* [class -> s.lastSearch / s.lastProfile], 0 = zero time
    mu,             \* [class -> holder of s.searchMu / s.profileMu]
    \* ---- environment
    signFn,         \* the page's document defines window.byted_acrawler
    now,            \* wall clock
    unclosed,       \* launched browsers not yet closed
    launches,       \* browsers launched so far
    \* ---- the owner goroutine (InitBrowser / Close)
    apc,            \* its position
    aerr,           \* what its last operation returned
    aop,            \* the operation it is in while that runs launchBrowser
    \* ---- caller goroutines
    pc,             \* position
    op,             \* operation in progress (kept after it returns)
    stage,          \* SearchByHashtag: "detail" or "items"
    limit,          \* the limit argument
    allVideos,      \* the walker's accumulator
    cursor,         \* the walker's cursor
    res,            \* what fetchFunc / the HTTP round trip handed back
    ret,            \* what the operation returned
    wake,           \* throttle: instant the sleep ends
    \* ---- history (read by the properties only)
    pages,          \* per caller: the pages the current call fetched
    hist,           \* per caller: what the current sign-and-fetch did
    evalFailed,     \* the last evaluation on this context failed
    recoveries,     \* recoveries completed since the last failed evaluation
    readyBasis,     \* what the operation that last stored Ready had done
    rets,           \* [class -> the last two throttle return instants]
    slept,          \* [class -> some throttle call of the class slept]
    crashed,        \* a goroutine panicked: the process is gone
    \* ---- contexts and session
    cancelled,      \* per caller: the ctx it passes to its operations is done
    hung,           \* the browser has stopped answering
    jar,            \* s.client.Jar for tiktok.com: [cookie name -> value], 0 = none
    authed,         \* history: a Login, LoginWithCookies or LoadCookies succeeded
    \* ---- proxy
    proxy,          \* s.proxy
    transport,      \* s.client.Transport: what it dials through
    proxyOk,        \* history: the argument of the last SetProxy that returned nil
    proxyErr        \* history: whether the last SetProxy returned an error

scraperVars == <<browser, page, browserMu, signingReady, isLogged, msToken>>
rateVars    == <<delay, lastReq, mu>>
envVars     == <<signFn, now, unclosed, launches>>
ownerVars   == <<apc, aerr, aop>>
callVars    == <<pc, op, stage, limit, allVideos, cursor, res, ret, wake>>
histVars    == <<pages, hist, evalFailed, recoveries, readyBasis, rets, slept, crashed>>
ctxVars     == <<cancelled, hung>>
netVars     == <<proxy, transport, proxyOk, proxyErr>>
sessVars    == <<jar, authed>>
vars == <<scraperVars, rateVars, envVars, ownerVars, callVars, histVars, ctxVars,
          sessVars, netVars>>

\* ----------------------------------------------------------------- helpers

Min(a, b) == IF a < b THEN a ELSE b

Upd(f, p, v) == [f EXCEPT ![p] = v]

SumSizes(ps) ==
    LET RECURSIVE S(_)
        S(i) == IF i = 0 THEN 0 ELSE S(i - 1) + ps[i].n
    IN S(Len(ps))

NoRes == [err |-> "nil", status |-> 0, kind |-> "none", n |-> 0, more |-> "absent",
          cur |-> 0, id |-> 0]

NoRet == [done |-> FALSE, videos |-> <<>>, err |-> "nil", user |-> FALSE, status |-> 0]

NoHist == [readyAtLock |-> FALSE, probed |-> FALSE, navigated |-> FALSE,
           probeTrue |-> FALSE, navOk |-> FALSE, evals |-> 0]

WaitOps == {"waitForSearch", "waitForProfile"}
WalkOps == {"SearchVideos", "SearchByHashtag"}

\* ------------------------------------------------------------ rate limiter

\* The class whose wait function an operation calls: GetUser calls
\* waitForProfile, the two searches call waitForSearch.
ClassOf(o) == IF o \in {"GetUser", "waitForProfile"} THEN "profile" ELSE "search"

TimestampOfShared(cl) == "search"

\* The timestamp the wait function of class cl hands to throttle:
\* waitForSearch passes &s.lastSearch, waitForProfile passes &s.lastProfile.
TimestampOf(cl) == cl

WaitNoDelay(d, jitter, elapsed) == jitter - elapsed

\* wait := delay + jitter - elapsed
Wait(d, jitter, elapsed) == d + jitter - elapsed

Returned(cl) == [rets EXCEPT ![cl] = <<rets[cl][2], now>>]

\* A routing that sends the profile lookup through the browser as well.
ThrottleReturnViaBrowser(p) ==
    IF op[p] \in WaitOps
    THEN /\ pc' = Upd(pc, p, "idle")
         /\ op' = Upd(op, p, "none")
    ELSE /\ pc' = Upd(pc, p, "bar_lock")
         /\ op' = op

\* What follows the throttle in the operation that called it.
ThrottleReturn(p) ==
    IF op[p] \in WaitOps
    THEN /\ pc' = Upd(pc, p, "idle")
         /\ op' = Upd(op, p, "none")
    ELSE /\ pc' = Upd(pc, p, IF op[p] = "GetUser" THEN "do_request" ELSE "bar_lock")
         /\ op' = op

\* waitForSearch / waitForProfile up to the sleep: Lock, then throttle. The
\* paths that do not sleep run to the deferred Unlock in this one step.
ThrottleEnter(p) ==
    /\ pc[p] = "wait"
    /\ LET cl == ClassOf(op[p])
           ts == TimestampOf(cl)
       IN /\ mu[cl] = NoOne
          /\ IF delay[cl] = 0
             THEN /\ ThrottleReturn(p)
                  /\ rets' = Returned(cl)
                  /\ UNCHANGED <<lastReq, mu, wake>>
             ELSE IF lastReq[ts] = 0
             THEN /\ lastReq' = [lastReq EXCEPT ![ts] = now]
                  /\ ThrottleReturn(p)
                  /\ rets' = Returned(cl)
                  /\ UNCHANGED <<mu, wake>>
             ELSE \E jitter \in 0 .. JitterMax - 1 :
                    LET w == Wait(delay[cl], jitter, now - lastReq[ts])
                    IN IF w > 0
                       THEN /\ mu' = [mu EXCEPT ![cl] = p]
                            /\ wake' = Upd(wake, p, now + w)
                            /\ pc' = Upd(pc, p, "sleep")
                            /\ UNCHANGED <<lastReq, op, rets>>
                       ELSE /\ lastReq' = [lastReq EXCEPT ![ts] = now]
                            /\ ThrottleReturn(p)
                            /\ rets' = Returned(cl)
                            /\ UNCHANGED <<mu, wake>>
    /\ UNCHANGED <<scraperVars, delay, envVars, ownerVars, stage, limit,
                   allVideos, cursor, res, ret, pages, hist, evalFailed,
                   recoveries, readyBasis, slept, crashed>>
    /\ UNCHANGED <<ctxVars, netVars, sessVars>>

\* time.Sleep(wait) is over: *lastReq = time.Now(), return, deferred Unlock.
ThrottleWake(p) ==
    /\ pc[p] = "sleep"
    /\ now >= wake[p]
    /\ LET cl == ClassOf(op[p])
           ts == TimestampOf(cl)
       IN /\ lastReq' = [lastReq EXCEPT ![ts] = now]
          /\ mu' = [mu EXCEPT ![cl] = NoOne]
          /\ rets' = Returned(cl)
          /\ slept' = [slept EXCEPT ![cl] = TRUE]
    /\ wake' = Upd(wake, p, 0)
    /\ ThrottleReturn(p)
    /\ UNCHANGED <<scraperVars, delay, envVars, ownerVars, stage, limit,
                   allVideos, cursor, res, ret, pages, hist, evalFailed,
                   recoveries, readyBasis, crashed>>
    /\ UNCHANGED <<ctxVars, netVars, sessVars>>

\* A caller starts operation o with limit l.
Begin(p, o, l) ==
    /\ op' = Upd(op, p, o)
    /\ limit' = Upd(limit, p, l)
    /\ stage' = Upd(stage, p, IF o = "SearchByHashtag" THEN "detail" ELSE "items")
    /\ allVideos' = Upd(allVideos, p, <<>>)
    /\ cursor' = Upd(cursor, p, 0)
    /\ res' = Upd(res, p, NoRes)
    /\ pages' = Upd(pages, p, <<>>)
    /\ hist' = Upd(hist, p, NoHist)

\* A direct call of waitForSearch or waitForProfile.
StartWait(p) ==
    /\ pc[p] = "idle"
    /\ \E o \in WaitOps : Begin(p, o, 0)
    /\ pc' = Upd(pc, p, "wait")
    /\ ret' = Upd(ret, p, NoRet)
    /\ UNCHANGED <<scraperVars, rateVars, envVars, ownerVars, wake, evalFailed,
                   recoveries, readyBasis, rets, slept, crashed>>
    /\ UNCHANGED <<ctxVars, netVars, sessVars>>

\* The wall clock advances.
Tick ==
    /\ now < MaxTime
    /\ now' = now + 1
    /\ UNCHANGED <<scraperVars, rateVars, signFn, unclosed, launches, ownerVars,
                   callVars, histVars>>
    /\ UNCHANGED <<ctxVars, netVars, sessVars>>

\* New(): no browser, NotReady, nothing fetched yet; d gives the two delays.
InitWith(d) ==
    /\ browser = 0 /\ page = "nil" /\ browserMu = NoOne
    /\ signingReady = FALSE /\ isLogged = FALSE /\ msToken = 0
    /\ delay = d
    /\ lastReq = [cl \in Classes |-> 0]
    /\ mu = [cl \in Classes |-> NoOne]
    /\ signFn = FALSE /\ now = 1 /\ unclosed = 0 /\ launches = 0
    /\ apc = "idle" /\ aerr = "nil" /\ aop = "none"
    /\ pc = [p \in Procs |-> "idle"]
    /\ op = [p \in Procs |-> "none"]
    /\ stage = [p \in Procs |-> "items"]
    /\ limit = [p \in Procs |-> 0]
    /\ allVideos = [p \in Procs |-> <<>>]
    /\ cursor = [p \in Procs |-> 0]
    /\ res = [p \in Procs |-> NoRes]
    /\ ret = [p \in Procs |-> NoRet]
    /\ wake = [p \in Procs |-> 0]
    /\ pages = [p \in Procs |-> <<>>]
    /\ hist = [p \in Procs |-> NoHist]
    /\ evalFailed = FALSE /\ recoveries = 0 /\ readyBasis = "none"
    /\ rets = [cl \in Classes |-> <<0, 0>>]
    /\ slept = [cl \in Classes |-> FALSE]
    /\ crashed = FALSE
    /\ cancelled = [p \in Procs |-> FALSE] /\ hung = FALSE
    /\ proxy = "" /\ transport = DefaultTransport /\ proxyOk = "" /\ proxyErr = FALSE
    /\ jar = NoCookies /\ authed = FALSE

\* The rate limiter alone: callers invoke the two wait functions directly, as
\* the throttle tests do, with every configured pair of intervals.
InitThrottle == \E d \in [Classes -> 0 .. MaxDelay] : InitWith(d)

NextThrottle ==
    \/ Tick
    \/ \E p \in Procs : StartWait(p)
    \/ \E p \in Procs : ThrottleEnter(p)
    \/ \E p \in Procs : ThrottleWake(p)

SpecThrottle == InitThrottle /\ [][NextThrottle]_vars

\* ---------------------------------------------------------- the remote end

Statuses == {200, 429, 404, 500}

\* The has-more member of a page body as it is on the wire: missing, a JSON
\* number or a JSON boolean.
WireFlags == {"absent", "0", "1", "2", "false", "true"}

\* The non-zero flags of the other endpoint's JSON type, which Unmarshal
\* rejects just as it rejects that type's zero.
OtherTypeMore(o) == IF o = "SearchVideos" THEN {"true"} ELSE {"1", "2"}

\* has_more is an integer on the keyword search, hasMore a boolean on the
\* hashtag item list: what the remote sends when it keeps to that.
MoreFlags(o) == IF o = "SearchVideos" THEN {"0", "1"} ELSE {"false", "true"}

\* What one caller asks and what the remote answers: every operation, every
\* limit from -1 up, every page size, cursor and status, every flag of the
\* endpoint's type and the zero of the other type; every answer carries the
\* token.
WalkEnv == [ops |-> WalkOps, limits |-> -1 .. MaxLimit, sizes |-> 0 .. MaxPage,
            cursors |-> 0 .. MaxCursor, statuses |-> Statuses, tokens |-> {1},
            flags |-> [o \in WalkOps |-> WireFlags \ OtherTypeMore(o)]]

\* The same for the runs with two callers and the owner, where the interleaving
\* is what is explored: keyword searches for one record, answered with status
\* 200 and pages of one record.
ConcEnv == [ops |-> {"SearchVideos"}, limits |-> {1}, sizes |-> {1}, cursors |-> {1},
            statuses |-> {200}, tokens |-> {0, 1},
            flags |-> [o \in WalkOps |-> MoreFlags(o)]]

\* The same for one caller next to the owner and the session operations: every
\* operation, one limit, status 200 and pages of one record.
LifeEnv == [ops |-> WalkOps, limits |-> {1}, sizes |-> {1}, cursors |-> {1},
            statuses |-> {200}, tokens |-> {0, 1},
            flags |-> [o \in WalkOps |-> MoreFlags(o)]]

\* What a document body can be: nothing, bytes that are no JSON, or JSON.
ErrorBodies(E) ==
    {[err |-> "nil", status |-> st, kind |-> k, n |-> 0, more |-> "absent", cur |-> 0, id |-> 0] :
        st \in E.statuses, k \in {"empty", "garbage", "json"}}

\* Answers to a page request: an item list with its has-more flag and cursor.
PageResponses(o, E) ==
    ErrorBodies(E) \cup
    {[err |-> "nil", status |-> 200, kind |-> "json", n |-> n, more |-> m, cur |-> c, id |-> 0] :
        n \in E.sizes, m \in E.flags[o], c \in E.cursors}

\* Answers to the challenge-detail request: id 0 stands for an empty ID.
DetailResponses(E) ==
    ErrorBodies(E) \cup
    {[err |-> "nil", status |-> 200, kind |-> "json", n |-> 0, more |-> "absent", cur |-> 0, id |-> 1]}

Responses(o, st, E) ==
    IF st = "detail" THEN DetailResponses(E) ELSE PageResponses(o, E)

Failure(e) == [NoRes EXCEPT !.err = e]

\* ------------------------------------------------- browser: sign and fetch

InFetch(p) == pc[p] \in {"bf_check", "bf_load", "bf_probe", "bf_nav", "bf_stable",
                         "bf_eval", "bar_unlock"}

BrowserMuIgnored == TRUE

\* s.browserMu.Lock() returns only while nobody holds the mutex.
BrowserMuFree == browserMu = NoOne

\* A dereference of s.page after Close set it to nil panics: the process dies.
Panic ==
    /\ crashed' = TRUE
    /\ pc' = [q \in Procs |-> "dead"]
    /\ apc' = "dead"
    /\ UNCHANGED <<scraperVars, rateVars, envVars, aerr, aop, op, stage, limit, allVideos,
                   cursor, res, ret, wake, pages, hist, evalFailed, recoveries,
                   readyBasis, rets, slept>>

\* browserAPIRequest: the URL is built, then s.browserMu.Lock().
BrowserLock(p) ==
    /\ pc[p] = "bar_lock"
    /\ stage[p] = "items" => Len(pages[p]) < MaxFetch
    /\ BrowserMuFree
    /\ browserMu' = p
    /\ pc' = Upd(pc, p, "bf_check")
    /\ hist' = Upd(hist, p, [NoHist EXCEPT !.readyAtLock = signingReady])
    /\ UNCHANGED <<browser, page, signingReady, isLogged, msToken, rateVars, envVars,
                   ownerVars, op, stage, limit, allVideos, cursor, res, ret, wake,
                   pages, evalFailed, recoveries, readyBasis, rets, slept, crashed>>
    /\ UNCHANGED <<ctxVars, netVars, sessVars>>

\* browserFetch: if s.page == nil { return nil, ErrBrowserNotReady }
BfCheck(p) ==
    /\ pc[p] = "bf_check"
    /\ IF page = "nil"
       THEN /\ res' = Upd(res, p, Failure("BrowserNotReady"))
            /\ pc' = Upd(pc, p, "bar_unlock")
       ELSE /\ pc' = Upd(pc, p, "bf_load")
            /\ res' = res
    /\ UNCHANGED <<scraperVars, rateVars, envVars, ownerVars, op, stage, limit,
                   allVideos, cursor, ret, wake, histVars>>
    /\ UNCHANGED <<ctxVars, netVars, sessVars>>

NeedsRecoveryAlways(ready) == TRUE

\* ensureSigningReady: if s.signingReady.Load() { return nil }
NeedsRecovery(ready) == ~ready

BfLoad(p) ==
    /\ pc[p] = "bf_load"
    /\ pc' = Upd(pc, p, IF NeedsRecovery(signingReady) THEN "bf_probe" ELSE "bf_eval")
    /\ UNCHANGED <<scraperVars, rateVars, envVars, ownerVars, op, stage, limit,
                   allVideos, cursor, res, ret, wake, histVars>>
    /\ UNCHANGED <<ctxVars, netVars, sessVars>>

\* What the operation that stores Ready has established in this call.
Basis(h) ==
    IF h.probeTrue THEN "probe"
    ELSE IF h.navigated /\ h.navOk THEN "navigate"
    ELSE "unchecked"

\* s.signingReady.Store(true) at the end of ensureSigningReady.
StoreReady(p, h) ==
    /\ signingReady' = TRUE
    /\ readyBasis' = Basis(h)
    /\ recoveries' = recoveries + 1
    /\ hist' = Upd(hist, p, h)
    /\ pc' = Upd(pc, p, "bf_eval")

\* ensureSigningReady: the probe typeof window.byted_acrawler !== 'undefined',
\* under a 3 s timeout; an error (the timeout of a browser that does not
\* answer included) or false leads to the reload.
BfProbe(p) ==
    /\ pc[p] = "bf_probe"
    /\ IF page = "nil"
       THEN Panic
       ELSE \E answered \in BOOLEAN :
              LET present == answered /\ signFn /\ ~hung
                  h == [hist[p] EXCEPT !.probed = TRUE, !.probeTrue = present]
              IN /\ IF present
                    THEN StoreReady(p, h)
                    ELSE /\ pc' = Upd(pc, p, "bf_nav")
                         /\ hist' = Upd(hist, p, h)
                         /\ UNCHANGED <<signingReady, readyBasis, recoveries>>
                 /\ UNCHANGED <<browser, page, browserMu, isLogged, msToken, rateVars,
                                envVars, ownerVars, op, stage, limit, allVideos,
                                cursor, res, ret, wake, pages, evalFailed, rets,
                                slept, crashed>>
    /\ UNCHANGED <<ctxVars, netVars, sessVars>>

AfterNavigateUnchecked(ok) == "bf_stable"

\* ensureSigningReady: a failed Navigate returns the error ("reload for
\* signing"), a successful one goes on to WaitStable.
AfterNavigate(ok) == IF ok THEN "bf_stable" ELSE "bar_unlock"

\* ensureSigningReady: s.page.Navigate(s.baseURL), on s.page itself: no
\* timeout, so the call returns only if the browser answers. The document that
\* results may or may not define the signing function.
BfNavigate(p) ==
    /\ pc[p] = "bf_nav"
    /\ ~hung
    /\ IF page = "nil"
       THEN Panic
       ELSE \E ok \in BOOLEAN, fn \in BOOLEAN :
              /\ signFn' = fn
              /\ hist' = Upd(hist, p, [hist[p] EXCEPT !.navigated = TRUE, !.navOk = ok])
              /\ pc' = Upd(pc, p, AfterNavigate(ok))
              /\ res' = Upd(res, p, IF AfterNavigate(ok) = "bar_unlock"
                                    THEN Failure("Other") ELSE res[p])
              /\ UNCHANGED <<scraperVars, rateVars, now, unclosed, launches, ownerVars,
                             op, stage, limit, allVideos, cursor, ret, wake, pages,
                             evalFailed, recoveries, readyBasis, rets, slept, crashed>>
    /\ UNCHANGED <<ctxVars, netVars, sessVars>>

\* ensureSigningReady: s.page.WaitStable(2s), on s.page itself (2 s is the
\* quiet period, not a deadline), then s.signingReady.Store(true).
BfStable(p) ==
    /\ pc[p] = "bf_stable"
    /\ ~hung
    /\ IF page = "nil"
       THEN Panic
       ELSE \E ok \in BOOLEAN :
              /\ IF ok
                 THEN /\ StoreReady(p, hist[p])
                      /\ res' = res
                 ELSE /\ res' = Upd(res, p, Failure("Other"))
                      /\ pc' = Upd(pc, p, "bar_unlock")
                      /\ UNCHANGED <<signingReady, readyBasis, recoveries, hist>>
              /\ UNCHANGED <<browser, page, browserMu, isLogged, msToken, rateVars,
                             envVars, ownerVars, op, stage, limit, allVideos, cursor,
                             ret, wake, pages, evalFailed, rets, slept, crashed>>
    /\ UNCHANGED <<ctxVars, netVars, sessVars>>

ReadyAfterEvalFailureKept == signingReady

\* browserFetch: on an evaluation error, s.signingReady.Store(false).
ReadyAfterEvalFailure == FALSE

\* browserFetch: the evaluation that signs the URL and fetches it, under a
\* 15 s timeout. It throws when the signing function is absent, and may fail
\* (timeout, network error) when it is present; on success it hands back the
\* body text of whatever the remote answered, whatever the status.  The
\* response may carry a fresh token tok (X-Ms-Token, Set-Cookie): the page's
\* fetch hands it to the browser, and nothing hands it to the Scraper.
BfEvalWith(p, E, tok) ==
    /\ pc[p] = "bf_eval"
    /\ IF page = "nil"
       THEN Panic
       ELSE /\ \E ok \in BOOLEAN :
                 IF ok /\ signFn /\ ~hung
                 THEN /\ \E r \in Responses(op[p], stage[p], E) : res' = Upd(res, p, r)
                      /\ evalFailed' = FALSE
                      /\ UNCHANGED <<signingReady, recoveries>>
                 ELSE /\ res' = Upd(res, p, Failure("SigningFailed"))
                      /\ signingReady' = ReadyAfterEvalFailure
                      /\ evalFailed' = TRUE
                      /\ recoveries' = 0
            /\ hist' = Upd(hist, p, [hist[p] EXCEPT !.evals = @ + 1])
            /\ pc' = Upd(pc, p, "bar_unlock")
            /\ UNCHANGED <<browser, page, browserMu, isLogged, msToken, rateVars,
                           envVars, ownerVars, op, stage, limit, allVideos, cursor,
                           ret, wake, pages, readyBasis, rets, slept, crashed>>
    /\ UNCHANGED <<ctxVars, netVars, sessVars>>

BfEval(p, E) == \E tok \in E.tokens : BfEvalWith(p, E, tok)

\* browserAPIRequest: fetchFunc has returned, s.browserMu.Unlock().
BrowserUnlock(p) ==
    /\ pc[p] = "bar_unlock"
    /\ browserMu' = IF browserMu = p THEN NoOne ELSE browserMu
    /\ pc' = Upd(pc, p, "fetched")
    /\ hist' = Upd(hist, p, NoHist)
    /\ UNCHANGED <<browser, page, signingReady, isLogged, msToken, rateVars, envVars,
                   ownerVars, op, stage, limit, allVideos, cursor, res, ret, wake,
                   pages, evalFailed, recoveries, readyBasis, rets, slept, crashed>>
    /\ UNCHANGED <<ctxVars, netVars, sessVars>>

\* The page drops its in-memory signing capability (navigation, eviction).
EnvLose ==
    /\ ~crashed
    /\ page = "open" /\ signFn
    /\ signFn' = FALSE
    /\ UNCHANGED <<scraperVars, rateVars, now, unclosed, launches, ownerVars,
                   callVars, histVars>>
    /\ UNCHANGED <<ctxVars, netVars, sessVars>>

\* The browser stops answering: no DevTools call on it returns any more, except
\* by the timeout of the page clone it was made on.
Hang ==
    /\ ~hung
    /\ page = "open"
    /\ hung' = TRUE
    /\ UNCHANGED <<scraperVars, rateVars, envVars, ownerVars, callVars, histVars,
                   cancelled, sessVars, netVars>>

\* The ctx that caller p hands to its operations is cancelled.
Cancel(p) ==
    /\ ~cancelled[p]
    /\ cancelled' = Upd(cancelled, p, TRUE)
    /\ UNCHANGED <<scraperVars, rateVars, envVars, ownerVars, callVars, histVars,
                   hung, sessVars, netVars>>

\* ------------------------------------------------------ pagination walkers

\* The records of the k-th fetched page, in page order.
NewRecords(k, n) == [i \in 1 .. n |-> <<k, i>>]

BrowserAPIResultUnwrapped(r) ==
    IF r.err # "nil" THEN "Other"
    ELSE IF r.kind = "empty" THEN "InvalidResponse"
    ELSE "nil"

\* browserAPIRequest after the Unlock: an error of fetchFunc is wrapped with %w
\* (so it still matches its sentinel), an empty body is ErrInvalidResponse,
\* anything else is handed to the caller.
BrowserAPIResult(r) ==
    IF r.err # "nil" THEN r.err
    ELSE IF r.kind = "empty" THEN "InvalidResponse"
    ELSE "nil"

FlagFieldAbsentIsMore(o, raw) ==
    IF raw = "absent" THEN [ok |-> TRUE, v |-> 1]
    ELSE IF o = "SearchVideos"
    THEN [ok |-> raw \in {"0", "1", "2"},
          v |-> IF raw = "1" THEN 1 ELSE IF raw = "2" THEN 2 ELSE 0]
    ELSE [ok |-> raw \in {"false", "true"}, v |-> IF raw = "true" THEN 1 ELSE 0]

\* json.Unmarshal into result.HasMore: a missing member leaves the zero value
\* (0, false); a number goes into the integer field of the keyword search and
\* a boolean into the bool field of the hashtag item list; the other way round
\* Unmarshal returns an error. The bool is written as 0 / 1.
FlagField(o, raw) ==
    IF raw = "absent" THEN [ok |-> TRUE, v |-> 0]
    ELSE IF o = "SearchVideos"
    THEN [ok |-> raw \in {"0", "1", "2"},
          v |-> IF raw = "1" THEN 1 ELSE IF raw = "2" THEN 2 ELSE 0]
    ELSE [ok |-> raw \in {"false", "true"}, v |-> IF raw = "true" THEN 1 ELSE 0]

\* fetchSearch: result.HasMore == 1; fetchHashtagVideos: result.HasMore.
HasMore(o, flag) == IF o = "SearchVideos" THEN flag = 1 ELSE flag # 0

\* nextCursor := 0; if has-more { nextCursor = result.Cursor }
NextCursor(o, r) == IF HasMore(o, FlagField(o, r.more).v) THEN r.cur ELSE 0

\* fetchSearch / fetchHashtagVideos: request, decode, normalise the cursor.
FetchPage(o, r) ==
    LET e == BrowserAPIResult(r)
    IN IF e # "nil" THEN [err |-> e, n |-> 0, next |-> 0]
       ELSE IF r.kind = "garbage" \/ ~FlagField(o, r.more).ok
       THEN [err |-> "Other", n |-> 0, next |-> 0]
       ELSE [err |-> "nil", n |-> r.n, next |-> NextCursor(o, r)]

LoopContinuesInclusive(n, l) == n <= l

\* for len(allVideos) < limit
LoopContinues(n, l) == n < l

TruncateNever(vs, l) == vs

\* if len(allVideos) > limit { allVideos = allVideos[:limit] }
Truncate(vs, l) == IF Len(vs) > l THEN SubSeq(vs, 1, l) ELSE vs

PartialDropped(vs) == <<>>

\* return allVideos, fmt.Errorf(...): the accumulator as it stands.
PartialOnError(vs) == vs

\* The operation returns (videos, err); st is the status of the last answer.
\* Its locals are gone with it.
Return(vs, e, st) ==
    [pc |-> "idle", all |-> <<>>, cur |-> 0, crash |-> FALSE,
     ret |-> [done |-> TRUE, videos |-> vs, err |-> e, user |-> FALSE, status |-> st]]

\* After the loop: truncate and return. Slicing to a negative limit panics.
Finish(vs, l, st) ==
    IF Len(vs) > l /\ l < 0
    THEN [pc |-> "dead", all |-> vs, cur |-> 0, crash |-> TRUE, ret |-> NoRet]
    ELSE Return(Truncate(vs, l), "nil", st)

\* The loop head, reached with accumulator vs and cursor c.
LoopHead(vs, c, l, st) ==
    IF LoopContinues(Len(vs), l)
    THEN [pc |-> "wait", all |-> vs, cur |-> c, crash |-> FALSE, ret |-> NoRet]
    ELSE Finish(vs, l, st)

\* The caller moves on as out says; a panic takes every goroutine down.
Apply(p, out) ==
    /\ pc' = IF out.crash THEN [q \in Procs |-> "dead"] ELSE Upd(pc, p, out.pc)
    /\ crashed' = out.crash
    /\ allVideos' = Upd(allVideos, p, out.all)
    /\ cursor' = Upd(cursor, p, out.cur)
    /\ ret' = Upd(ret, p, out.ret)
    /\ res' = Upd(res, p, NoRes)

ArgRefusedNever(empty) == FALSE

\* if keyword == "" (hashtag == "", username == "") { return ..., error }
ArgRefused(empty) == empty

\* SearchVideos / SearchByHashtag are called: the empty argument is refused,
\* SearchByHashtag first resolves the challenge, SearchVideos enters its loop.
StartSearch(p, E) ==
    /\ pc[p] = "idle"
    /\ \E o \in E.ops, l \in E.limits, empty \in BOOLEAN :
         /\ op' = Upd(op, p, o)
         /\ limit' = Upd(limit, p, l)
         /\ stage' = Upd(stage, p, IF o = "SearchByHashtag" /\ ~ArgRefused(empty)
                                   THEN "detail" ELSE "items")
         /\ Apply(p, IF ArgRefused(empty) THEN Return(<<>>, "Required", 0)
                     ELSE IF o = "SearchByHashtag"
                     THEN [pc |-> "bar_lock", all |-> <<>>, cur |-> 0, crash |-> FALSE,
                           ret |-> NoRet]
                     ELSE LoopHead(<<>>, 0, l, 0))
    /\ pages' = Upd(pages, p, <<>>)
    /\ UNCHANGED <<scraperVars, rateVars, envVars, ownerVars, wake, hist, evalFailed,
                   recoveries, readyBasis, rets, slept>>
    /\ UNCHANGED <<ctxVars, netVars, sessVars>>

\* A resolution that hands on whatever ID the answer holds, the empty one too.
ChallengeResultAnyID(r) ==
    IF BrowserAPIResult(r) # "nil" THEN BrowserAPIResult(r)
    ELSE IF r.kind = "garbage" THEN "Other"
    ELSE "nil"

\* getChallengeID: the error of browserAPIRequest, else the decode error, else
\* ErrNotFound for an empty ID, else nil.
ChallengeResult(r) ==
    IF BrowserAPIResult(r) # "nil" THEN BrowserAPIResult(r)
    ELSE IF r.kind = "garbage" THEN "Other"
    ELSE IF r.id = 0 THEN "NotFound"
    ELSE "nil"

\* getChallengeID after browserAPIRequest, and the return into SearchByHashtag.
ChallengeDone(p) ==
    /\ pc[p] = "fetched"
    /\ stage[p] = "detail"
    /\ LET r == res[p]
           e == ChallengeResult(r)
       IN Apply(p, IF e # "nil" THEN Return(<<>>, e, r.status)
                   ELSE LoopHead(<<>>, 0, limit[p], r.status))
    /\ stage' = Upd(stage, p, "items")
    /\ UNCHANGED <<scraperVars, rateVars, envVars, ownerVars, op, limit, wake, pages,
                   hist, evalFailed, recoveries, readyBasis, rets, slept>>
    /\ UNCHANGED <<ctxVars, netVars, sessVars>>

CursorAfterKept(old, next) == old

\* cursor = nextCursor
CursorAfter(old, next) == next

\* One turn of the loop body after the page fetch returned.
WalkPage(p) ==
    /\ pc[p] = "fetched"
    /\ stage[p] = "items"
    /\ LET k == Len(pages[p]) + 1
           st == res[p].status
           fr == FetchPage(op[p], res[p])
           vs == allVideos[p] \o NewRecords(k, fr.n)
       IN /\ pages' = Upd(pages, p, Append(pages[p],
                        [err |-> fr.err, n |-> fr.n, next |-> fr.next,
                         asked |-> cursor[p], flag |-> res[p].more,
                         cur |-> res[p].cur]))
          /\ Apply(p, IF fr.err # "nil"
                      THEN Return(PartialOnError(allVideos[p]), fr.err, st)
                      ELSE IF fr.next = 0 THEN Finish(vs, limit[p], st)
                      ELSE LoopHead(vs, CursorAfter(cursor[p], fr.next), limit[p], st))
    /\ UNCHANGED <<scraperVars, rateVars, envVars, ownerVars, op, stage, limit,
                   wake, hist, evalFailed, recoveries, readyBasis, rets, slept>>
    /\ UNCHANGED <<ctxVars, netVars, sessVars>>

\* ------------------------------------------------------------ cookie jar

\* s.client.Jar.SetCookies(tiktokURL, cookies): each cookie given is stored
\* under its name; the jar's other entries stay.
JarAfterSet(j, cs) == [n \in CookieNames |-> IF cs[n] # 0 THEN cs[n] ELSE j[n]]

\* SetCookies: for _, c := range cookies { if c.Name == "msToken" { ... } }
TokenAfterSet(t, cs) == IF cs["msToken"] # 0 THEN cs["msToken"] ELSE t

\* SaveCookies: json.Marshal(s.GetCookies()) written to the file; Jar.Cookies
\* hands out the name and the value of each cookie it holds.
SavedFile(j) == {<<n, j[n]>> : n \in {m \in CookieNames : j[m] # 0}}

\* LoadCookies: json.Unmarshal(data, &cookies), as the argument of SetCookies.
CookiesOf(f) ==
    [n \in CookieNames |->
        IF \E c \in f : c[1] = n THEN (CHOOSE c \in f : c[1] = n)[2] ELSE 0]

\* New() followed by a LoadCookies that reads file f without error.
LoadedOnNew(f) ==
    [jar |-> JarAfterSet(NoCookies, CookiesOf(f)),
     msToken |-> TokenAfterSet(0, CookiesOf(f)),
     isLogged |-> TRUE]

\* ------------------------------------------------------- GetUser (direct)

\* The documents a profile page can be: without the opening script tag, with
\* it but without the closing tag, with JSON that does not unmarshal, with a
\* user object whose uniqueId is empty, with one whose uniqueId is set.
Docs == {"nomarker", "unclosed", "unparsable", "emptyuser", "user"}

\* extractMsToken: the X-Ms-Token header, else the msToken cookie, else as is.
ExtractMsToken(old, hdr, cookie) ==
    IF hdr # 0 THEN hdr ELSE IF cookie # 0 THEN cookie ELSE old

\* doRequest: switch resp.StatusCode { 429: ErrRateLimited, 404: ErrNotFound }
Classify(st) ==
    IF st = 429 THEN "RateLimited" ELSE IF st = 404 THEN "NotFound" ELSE "nil"

\* An extractor that wraps the sentinel around the unmarshal error too.
ExtractUserOneSentinel(doc) ==
    IF doc \in {"nomarker", "unclosed", "unparsable"} THEN "InvalidResponse"
    ELSE IF doc = "emptyuser" THEN "NotFound"
    ELSE "nil"

\* extractUniversalData, then extractUserFromSSR.
ExtractUser(doc) ==
    IF doc \in {"nomarker", "unclosed"} THEN "InvalidResponse"
    ELSE IF doc = "unparsable" THEN "Other"
    ELSE IF doc = "emptyuser" THEN "NotFound"
    ELSE "nil"

\* GetUser is called: the empty username is refused, else waitForProfile.
StartGetUser(p) ==
    /\ pc[p] = "idle"
    /\ op' = Upd(op, p, "GetUser")
    /\ limit' = Upd(limit, p, 0)
    /\ pages' = Upd(pages, p, <<>>)
    /\ \E empty \in BOOLEAN :
         Apply(p, IF ArgRefused(empty) THEN Return(<<>>, "Required", 0)
                  ELSE [pc |-> "wait", all |-> <<>>, cur |-> 0, crash |-> FALSE,
                        ret |-> NoRet])
    /\ UNCHANGED <<scraperVars, rateVars, envVars, ownerVars, stage, wake, hist,
                   evalFailed, recoveries, readyBasis, rets, slept>>
    /\ UNCHANGED <<ctxVars, netVars, sessVars>>

\* doRequest: the request leaves through s.client.Do.
DoRequest(p) ==
    /\ pc[p] = "do_request"
    /\ pc' = Upd(pc, p, "http_wait")
    /\ UNCHANGED <<scraperVars, rateVars, envVars, ownerVars, op, stage, limit,
                   allVideos, cursor, res, ret, wake, histVars>>
    /\ UNCHANGED <<ctxVars, netVars, sessVars>>

\* doRequest returns (a transport error, which is what s.client.Do gives for a
\* request whose ctx is done, or a response whose cookies s.client.Do has put
\* into the jar, whose token is taken and whose status is classified) and
\* GetUser finishes on the bytes it got.
HttpResponseWith(p, E, doc) ==
    /\ pc[p] = "http_wait"
    /\ \E arrived \in BOOLEAN, st \in E.statuses, hdr \in E.tokens, ck \in E.tokens :
         IF ~arrived \/ cancelled[p]
         THEN /\ Apply(p, Return(<<>>, "Other", 0))
              /\ UNCHANGED <<msToken, jar>>
         ELSE /\ msToken' = ExtractMsToken(msToken, hdr, ck)
              /\ jar' = JarAfterSet(jar, [NoCookies EXCEPT !["msToken"] = ck])
              /\ LET e == IF Classify(st) # "nil" THEN Classify(st) ELSE ExtractUser(doc)
                 IN Apply(p, [Return(<<>>, e, st) EXCEPT !.ret.user = (e = "nil")])
    /\ UNCHANGED <<browser, page, browserMu, signingReady, isLogged, rateVars, envVars,
                   ownerVars, op, stage, limit, wake, pages, hist, evalFailed,
                   recoveries, readyBasis, rets, slept>>
    /\ UNCHANGED <<ctxVars, netVars, authed>>

HttpResponse(p, E) == \E doc \in Docs : HttpResponseWith(p, E, doc)

\* ---------------------------- the owner: InitBrowser, Login, cookies, Close

\* launchBrowser: launch, connect, create the page; on success s.browser and
\* s.page are overwritten with the new context (a blank document). o is the
\* operation that called it.
LaunchUpTo(o, n) ==
    /\ ~crashed
    /\ launches < n
    /\ \E ok \in BOOLEAN :
         IF ok
         THEN /\ browser' = launches + 1
              /\ page' = "open"
              /\ signFn' = FALSE
              /\ unclosed' = unclosed + 1
              /\ launches' = launches + 1
              /\ apc' = "ib_nav"
              /\ aerr' = aerr
              /\ aop' = o
         ELSE /\ aerr' = "Other"
              /\ apc' = "idle"
              /\ aop' = "none"
              /\ UNCHANGED <<browser, page, signFn, unclosed, launches>>
    /\ UNCHANGED <<browserMu, signingReady, isLogged, msToken, rateVars, now,
                   callVars, histVars>>
    /\ UNCHANGED <<ctxVars, netVars, sessVars>>

Launch(o) == LaunchUpTo(o, MaxLaunch)

\* InitBrowser: return s.launchBrowser().
IbLaunch ==
    /\ apc = "idle"
    /\ Launch("InitBrowser")

\* InitBrowser on a Scraper that may have launched a browser before.
IbRelaunch ==
    /\ apc = "idle"
    /\ LaunchUpTo("InitBrowser", MaxRelaunch)

\* launchBrowser: s.page.Navigate(s.baseURL).
IbNavigate ==
    /\ apc = "ib_nav"
    /\ ~hung
    /\ \E ok \in BOOLEAN, fn \in BOOLEAN :
         /\ signFn' = fn
         /\ apc' = IF ok THEN "ib_stable" ELSE "idle"
         /\ aerr' = IF ok THEN aerr ELSE "Other"
         /\ aop' = IF ok THEN aop ELSE "none"
    /\ UNCHANGED <<scraperVars, rateVars, now, unclosed, launches, callVars, histVars>>
    /\ UNCHANGED <<ctxVars, netVars, sessVars>>

\* launchBrowser: s.page.WaitStable(2s), then s.signingReady.Store(true).
IbStable ==
    /\ apc = "ib_stable"
    /\ ~hung
    /\ \E ok \in BOOLEAN :
         IF ok
         THEN /\ signingReady' = TRUE
              /\ readyBasis' = "navigate"
              /\ evalFailed' = FALSE
              /\ apc' = "ib_sync"
              /\ UNCHANGED <<aerr, aop>>
         ELSE /\ apc' = "idle"
              /\ aerr' = "Other"
              /\ aop' = "none"
              /\ UNCHANGED <<signingReady, readyBasis, evalFailed>>
    /\ UNCHANGED <<browser, page, browserMu, isLogged, msToken, rateVars, envVars,
                   callVars, pages, hist, recoveries, rets, slept, crashed>>
    /\ UNCHANGED <<ctxVars, netVars, sessVars>>

\* Where the operation that called launchBrowser goes on after it.
AfterLaunch(o) ==
    IF o = "Login" THEN "lg_page"
    ELSE IF o = "LoginWithCookies" THEN "lc_page"
    ELSE "idle"

\* The cookies a browser that was just launched holds after its first visit.
BrowserCookies(E) == {[NoCookies EXCEPT !["msToken"] = t] : t \in E.tokens}

\* syncCookiesFromBrowser at the end of launchBrowser: s.page.Cookies,
\* s.SetCookies, s.isLogged = true. Its error is what launchBrowser returns.
IbSync(E) ==
    /\ apc = "ib_sync"
    /\ ~hung
    /\ \E ok \in BOOLEAN, cs \in BrowserCookies(E) :
         IF ok
         THEN /\ jar' = JarAfterSet(jar, cs)
              /\ msToken' = TokenAfterSet(msToken, cs)
              /\ isLogged' = TRUE
              /\ apc' = AfterLaunch(aop)
              /\ aerr' = IF AfterLaunch(aop) = "idle" THEN "nil" ELSE aerr
              /\ aop' = IF AfterLaunch(aop) = "idle" THEN "none" ELSE aop
         ELSE /\ aerr' = "Other"
              /\ apc' = "idle"
              /\ aop' = "none"
              /\ UNCHANGED <<msToken, isLogged, jar>>
    /\ UNCHANGED <<browser, page, browserMu, signingReady, rateVars, envVars,
                   callVars, histVars>>
    /\ UNCHANGED <<ctxVars, netVars, authed>>

\* SetCookies(cs), called by the owner.
SetCookiesWith(cs) ==
    /\ apc = "idle"
    /\ ~crashed
    /\ jar' = JarAfterSet(jar, cs)
    /\ msToken' = TokenAfterSet(msToken, cs)
    /\ UNCHANGED <<browser, page, browserMu, signingReady, isLogged, rateVars,
                   envVars, ownerVars, callVars, histVars, ctxVars, netVars, authed>>

SetCookies == \E cs \in CookieSets : SetCookiesWith(cs)

\* SetProxy(proxyAddr): takes no lock and waits for nothing.
SetProxyWith(a) ==
    LET r == SetProxyResult([proxy |-> proxy, transport |-> transport], a) IN
    /\ proxy' = r.proxy
    /\ transport' = r.transport
    /\ proxyErr' = r.err
    /\ proxyOk' = IF r.err THEN proxyOk ELSE a
    /\ UNCHANGED <<scraperVars, rateVars, envVars, ownerVars, callVars, histVars,
                   ctxVars, sessVars>>

SetProxy == \E a \in ProxyArgs : SetProxyWith(a)

\* LoadCookies(path): a file that cannot be read or decoded is an error; else
\* s.SetCookies(cookies) and s.isLogged = true.
\* What a cookie file can be: missing or unreadable, bytes that are no JSON
\* array of cookies, or the cookies somebody saved.
Files ==
    {[kind |-> k, cs |-> NoCookies] : k \in {"unreadable", "notjson"}} \cup
    {[kind |-> "cookies", cs |-> c] : c \in CookieSets}

\* A load that marks the session logged in before it looks at the file.
LoadResultMarksFirst(cur, f) ==
    IF f.kind = "unreadable"
    THEN [jar |-> cur.jar, msToken |-> cur.msToken, isLogged |-> TRUE, err |-> "IO"]
    ELSE IF f.kind = "notjson"
    THEN [jar |-> cur.jar, msToken |-> cur.msToken, isLogged |-> TRUE, err |-> "Other"]
    ELSE [jar |-> JarAfterSet(cur.jar, f.cs), msToken |-> TokenAfterSet(cur.msToken, f.cs),
          isLogged |-> TRUE, err |-> "nil"]

\* LoadCookies as a function of the session fields and the file: the error of
\* os.ReadFile and the error of json.Unmarshal are returned before anything
\* is assigned; else SetCookies and isLogged = true.
LoadResult(cur, f) ==
    IF f.kind = "unreadable"
    THEN [jar |-> cur.jar, msToken |-> cur.msToken, isLogged |-> cur.isLogged, err |-> "IO"]
    ELSE IF f.kind = "notjson"
    THEN [jar |-> cur.jar, msToken |-> cur.msToken, isLogged |-> cur.isLogged,
          err |-> "Other"]
    ELSE [jar |-> JarAfterSet(cur.jar, f.cs), msToken |-> TokenAfterSet(cur.msToken, f.cs),
          isLogged |-> TRUE, err |-> "nil"]

Session == [jar |-> jar, msToken |-> msToken, isLogged |-> isLogged]

LoadCookiesFrom(f) ==
    /\ apc = "idle"
    /\ ~crashed
    /\ LET r == LoadResult(Session, f)
       IN /\ jar' = r.jar
          /\ msToken' = r.msToken
          /\ isLogged' = r.isLogged
          /\ authed' = IF r.err = "nil" THEN TRUE ELSE authed
          /\ aerr' = r.err
    /\ UNCHANGED <<browser, page, browserMu, signingReady, rateVars, envVars,
                   apc, aop, callVars, histVars, ctxVars, netVars>>

LoadCookies == \E f \in Files : LoadCookiesFrom(f)

\* Login: if s.browser == nil { s.launchBrowser() }, else on to the login page.
LoginStart ==
    /\ apc = "idle"
    /\ IF browser = 0
       THEN Launch("Login")
       ELSE /\ ~crashed
            /\ apc' = "lg_page"
            /\ aop' = "Login"
            /\ UNCHANGED <<scraperVars, rateVars, envVars, aerr, callVars, histVars,
                           ctxVars, netVars, sessVars>>

\* The cookies of the browser after the login form was submitted: the session
\* cookie is there if the remote accepted the credentials.
LoginCookies(E) ==
    {[msToken |-> t, sessionid |-> v] : t \in E.tokens, v \in {0, 1}}

\* Login on the page: navigate to the login form, fill it in, submit, wait,
\* then syncCookiesFromBrowser. Any step may fail; the form replaces the
\* document that was loaded.
LoginPage(E) ==
    /\ apc = "lg_page"
    /\ ~hung
    /\ IF page = "nil"
       THEN Panic /\ UNCHANGED <<ctxVars, netVars, sessVars>>
       ELSE /\ \E ok \in BOOLEAN, cs \in LoginCookies(E) :
                 IF ok
                 THEN /\ jar' = JarAfterSet(jar, cs)
                      /\ msToken' = TokenAfterSet(msToken, cs)
                      /\ isLogged' = TRUE
                      /\ authed' = TRUE
                      /\ aerr' = "nil"
                 ELSE /\ aerr' = "Other"
                      /\ UNCHANGED <<jar, msToken, isLogged, authed>>
            /\ signFn' = FALSE
            /\ apc' = "idle"
            /\ aop' = "none"
            /\ UNCHANGED <<browser, page, browserMu, signingReady, rateVars, now,
                           unclosed, launches, callVars, histVars, ctxVars, netVars>>

\* LoginWithCookies: s.LoadCookies(path); its error is returned at once.
LwcLoad ==
    /\ apc = "idle"
    /\ ~crashed
    /\ \E f \in Files :
         LET r == LoadResult(Session, f)
         IN /\ jar' = r.jar
            /\ msToken' = r.msToken
            /\ isLogged' = r.isLogged
            /\ authed' = IF r.err = "nil" THEN TRUE ELSE authed
            /\ apc' = IF r.err = "nil" THEN "lc_launch" ELSE apc
            /\ aop' = IF r.err = "nil" THEN "LoginWithCookies" ELSE aop
            /\ aerr' = IF r.err = "nil" THEN aerr ELSE r.err
    /\ UNCHANGED <<browser, page, browserMu, signingReady, rateVars, envVars,
                   callVars, histVars, ctxVars, netVars>>

\* LoginWithCookies: if s.browser == nil { s.launchBrowser() }.
LwcLaunch ==
    /\ apc = "lc_launch"
    /\ IF browser = 0
       THEN Launch("LoginWithCookies")
       ELSE /\ ~crashed
            /\ apc' = "lc_page"
            /\ UNCHANGED <<scraperVars, rateVars, envVars, aerr, aop, callVars,
                           histVars, ctxVars, netVars, sessVars>>

\* LoginWithCookies: s.page.SetCookies for each cookie of the jar.
LwcPage ==
    /\ apc = "lc_page"
    /\ ~hung
    /\ IF page = "nil"
       THEN Panic
       ELSE /\ \E ok \in BOOLEAN : aerr' = IF ok THEN "nil" ELSE "Other"
            /\ apc' = "idle"
            /\ aop' = "none"
            /\ UNCHANGED <<scraperVars, rateVars, envVars, callVars, histVars>>
    /\ UNCHANGED <<ctxVars, netVars, sessVars>>

PageAfterCloseKept == page

\* closeBrowser: s.page = nil once s.page.Close() returned no error.
PageAfterClose == "nil"

\* closeBrowser: if s.page != nil { s.page.Close(); s.page = nil }
ClosePage ==
    /\ apc = "idle"
    /\ ~crashed
    /\ page # "nil" => ~hung
    /\ IF page = "nil"
       THEN /\ apc' = "cl_browser"
            /\ UNCHANGED <<page, aerr>>
       ELSE \E ok \in BOOLEAN :
              IF ok
              THEN /\ page' = PageAfterClose
                   /\ apc' = "cl_browser"
                   /\ aerr' = aerr
              ELSE /\ aerr' = "Other"
                   /\ UNCHANGED <<page, apc>>
    /\ UNCHANGED <<browser, browserMu, signingReady, isLogged, msToken, rateVars,
                   envVars, aop, callVars, histVars>>
    /\ UNCHANGED <<ctxVars, netVars, sessVars>>

\* closeBrowser: if s.browser != nil { s.browser.Close(); s.browser = nil }
CloseBrowser ==
    /\ apc = "cl_browser"
    /\ browser # 0 => ~hung
    /\ apc' = "idle"
    /\ IF browser = 0
       THEN /\ aerr' = "nil"
            /\ UNCHANGED <<browser, unclosed>>
       ELSE \E ok \in BOOLEAN :
              IF ok
              THEN /\ browser' = 0
                   /\ unclosed' = unclosed - 1
                   /\ aerr' = "nil"
              ELSE /\ aerr' = "Other"
                   /\ UNCHANGED <<browser, unclosed>>
    /\ UNCHANGED <<page, browserMu, signingReady, isLogged, msToken, rateVars,
                   signFn, now, launches, aop, callVars, histVars>>
    /\ UNCHANGED <<ctxVars, netVars, sessVars>>

\* ---------------------------------------------------------- specifications

\* The client as the tests configure it (both delays 0, so no throttle call
\* sleeps): two callers run keyword searches against one Scraper while the
\* owner initialises and closes the browser.
Init == InitWith([cl \in Classes |-> 0])

Next ==
    \/ \E p \in Procs : StartSearch(p, ConcEnv)
    \/ \E p \in Procs : ThrottleEnter(p)
    \/ \E p \in Procs : BrowserLock(p)
    \/ \E p \in Procs : BfCheck(p)
    \/ \E p \in Procs : BfLoad(p)
    \/ \E p \in Procs : BfProbe(p)
    \/ \E p \in Procs : BfNavigate(p)
    \/ \E p \in Procs : BfStable(p)
    \/ \E p \in Procs : BfEval(p, ConcEnv)
    \/ \E p \in Procs : BrowserUnlock(p)
    \/ \E p \in Procs : WalkPage(p)
    \/ IbLaunch
    \/ IbNavigate
    \/ IbStable
    \/ IbSync(ConcEnv)
    \/ ClosePage
    \/ CloseBrowser
    \/ EnvLose

Spec == Init /\ [][Next]_vars

\* One caller against a Scraper whose InitBrowser has succeeded, over the full
\* range of limits and remote answers; the owner stays away.
InitReady(d) ==
    /\ browser = 1 /\ page = "open" /\ browserMu = NoOne
    /\ signingReady = TRUE /\ isLogged = TRUE /\ msToken \in WalkEnv.tokens
    /\ jar = [NoCookies EXCEPT !["msToken"] = msToken] /\ authed = FALSE
    /\ delay = d
    /\ lastReq = [cl \in Classes |-> 0]
    /\ mu = [cl \in Classes |-> NoOne]
    /\ signFn \in BOOLEAN /\ now = 1 /\ unclosed = 1 /\ launches = 1
    /\ apc = "idle" /\ aerr = "nil" /\ aop = "none"
    /\ pc = [p \in Procs |-> "idle"]
    /\ op = [p \in Procs |-> "none"]
    /\ stage = [p \in Procs |-> "items"]
    /\ limit = [p \in Procs |-> 0]
    /\ allVideos = [p \in Procs |-> <<>>]
    /\ cursor = [p \in Procs |-> 0]
    /\ res = [p \in Procs |-> NoRes]
    /\ ret = [p \in Procs |-> NoRet]
    /\ wake = [p \in Procs |-> 0]
    /\ pages = [p \in Procs |-> <<>>]
    /\ hist = [p \in Procs |-> NoHist]
    /\ evalFailed = FALSE /\ recoveries = 0 /\ readyBasis = "navigate"
    /\ rets = [cl \in Classes |-> <<0, 0>>]
    /\ slept = [cl \in Classes |-> FALSE]
    /\ crashed = FALSE
    /\ cancelled = [p \in Procs |-> FALSE] /\ hung = FALSE
    /\ proxy = "" /\ transport = DefaultTransport /\ proxyOk = "" /\ proxyErr = FALSE

InitWalk == InitReady([cl \in Classes |-> 0])

Walker == "p1"

NextWalk ==
    \/ StartSearch(Walker, WalkEnv)
    \/ StartGetUser(Walker)
    \/ ThrottleEnter(Walker)
    \/ BrowserLock(Walker)
    \/ BfCheck(Walker)
    \/ BfLoad(Walker)
    \/ BfProbe(Walker)
    \/ BfNavigate(Walker)
    \/ BfStable(Walker)
    \/ BfEval(Walker, WalkEnv)
    \/ BrowserUnlock(Walker)
    \/ ChallengeDone(Walker)
    \/ WalkPage(Walker)
    \/ DoRequest(Walker)
    \/ HttpResponse(Walker, WalkEnv)
    \/ EnvLose

SpecWalk == InitWalk /\ [][NextWalk]_vars

\* One caller next to the owner on a new Scraper: the caller runs the three
\* public operations while the owner initialises and closes the browser.
NextLife ==
    \/ StartSearch(Walker, LifeEnv)
    \/ StartGetUser(Walker)
    \/ ThrottleEnter(Walker)
    \/ BrowserLock(Walker)
    \/ BfCheck(Walker)
    \/ BfLoad(Walker)
    \/ BfProbe(Walker)
    \/ BfNavigate(Walker)
    \/ BfStable(Walker)
    \/ BfEval(Walker, LifeEnv)
    \/ BrowserUnlock(Walker)
    \/ ChallengeDone(Walker)
    \/ WalkPage(Walker)
    \/ DoRequest(Walker)
    \/ HttpResponse(Walker, LifeEnv)
    \/ IbLaunch
    \/ IbNavigate
    \/ IbStable
    \/ IbSync(LifeEnv)
    \/ ClosePage
    \/ CloseBrowser
    \/ EnvLose

SpecLife == Init /\ [][NextLife]_vars

\* Walks of two pages of one record each, and profile lookups.
AbortEnv == [ops |-> WalkOps, limits |-> {2}, sizes |-> {1}, cursors |-> {1},
             statuses |-> {200}, tokens |-> {0},
             flags |-> [o \in WalkOps |-> MoreFlags(o)]]

\* One caller against an initialised Scraper with both class intervals at one
\* tick, while its ctx may be cancelled and the browser may stop answering.
InitAbort == InitReady([cl \in Classes |-> 1])

NextAbort ==
    \/ StartSearch(Walker, AbortEnv)
    \/ StartGetUser(Walker)
    \/ ThrottleEnter(Walker)
    \/ ThrottleWake(Walker)
    \/ Tick
    \/ BrowserLock(Walker)
    \/ BfCheck(Walker)
    \/ BfLoad(Walker)
    \/ BfProbe(Walker)
    \/ BfNavigate(Walker)
    \/ BfStable(Walker)
    \/ BfEval(Walker, AbortEnv)
    \/ BrowserUnlock(Walker)
    \/ ChallengeDone(Walker)
    \/ WalkPage(Walker)
    \/ DoRequest(Walker)
    \/ HttpResponse(Walker, AbortEnv)
    \/ Hang
    \/ Cancel(Walker)

SpecAbort == InitAbort /\ [][NextAbort]_vars

\* The session operations on a new Scraper: the owner sets and loads cookies,
\* logs in either way, initialises and closes the browser, while one caller
\* looks up profiles.
SessEnv == [ops |-> WalkOps, limits |-> {1}, sizes |-> {1}, cursors |-> {1},
            statuses |-> {200}, tokens |-> {0, 1},
            flags |-> [o \in WalkOps |-> MoreFlags(o)]]

NextSession ==
    \/ IbLaunch
    \/ IbNavigate
    \/ IbStable
    \/ IbSync(SessEnv)
    \/ SetCookies
    \/ LoadCookies
    \/ LoginStart
    \/ LoginPage(SessEnv)
    \/ LwcLoad
    \/ LwcLaunch
    \/ LwcPage
    \/ ClosePage
    \/ CloseBrowser
    \/ StartGetUser(Walker)
    \/ ThrottleEnter(Walker)
    \/ DoRequest(Walker)
    \/ HttpResponse(Walker, SessEnv)

SpecSession == Init /\ [][NextSession]_vars

\* The owner sets the proxy between and during profile requests.
NextProxy ==
    \/ SetProxy
    \/ StartGetUser(Walker)
    \/ ThrottleEnter(Walker)
    \/ DoRequest(Walker)
    \/ HttpResponse(Walker, SessEnv)

SpecProxy == Init /\ [][NextProxy]_vars

\* The owner sets and loads cookies between and during profile requests.
NextFile ==
    \/ SetCookies
    \/ LoadCookies
    \/ StartGetUser(Walker)
    \/ ThrottleEnter(Walker)
    \/ DoRequest(Walker)
    \/ HttpResponse(Walker, SessEnv)

SpecFile == Init /\ [][NextFile]_vars

\* The owner's calls alone, InitBrowser also on a Scraper that has a browser.
NextOwner ==
    \/ IbRelaunch
    \/ IbNavigate
    \/ IbStable
    \/ IbSync(SessEnv)
    \/ LoginStart
    \/ LoginPage(SessEnv)
    \/ LwcLoad
    \/ LwcLaunch
    \/ LwcPage
    \/ ClosePage
    \/ CloseBrowser

SpecOwner == Init /\ [][NextOwner]_vars

\* Profile lookups from both callers beside one caller's searches, on a
\* Scraper without a browser and on one with a browser.
Searcher == "p2"

InitUser == Init \/ InitWalk

NextUser ==
    \/ \E p \in Procs : StartGetUser(p)
    \/ \E p \in Procs : ThrottleEnter(p)
    \/ \E p \in Procs : DoRequest(p)
    \/ \E p \in Procs : HttpResponse(p, ConcEnv)
    \/ StartSearch(Searcher, ConcEnv)
    \/ BrowserLock(Searcher)
    \/ BfCheck(Searcher)
    \/ BfLoad(Searcher)
    \/ BfProbe(Searcher)
    \/ BfNavigate(Searcher)
    \/ BfStable(Searcher)
    \/ BfEval(Searcher, ConcEnv)
    \/ BrowserUnlock(Searcher)
    \/ WalkPage(Searcher)

SpecUser == InitUser /\ [][NextUser]_vars

\* ------------------------------------------------------- C5, C6: throttle

OtherClass(cl) == IF cl = "search" THEN "profile" ELSE "search"

\* C5: for a class interval d > 0, any two throttle calls of one class return
\* at least d apart (the return instant of a call is the instant it reads for
\* the class timestamp as its last statement); with d = 0 no call sleeps.
C5_MinInterval ==
    /\ \A cl \in Classes :
         (delay[cl] > 0 /\ rets[cl][1] # 0) => rets[cl][2] - rets[cl][1] >= delay[cl]
    /\ \A p \in Procs :
         pc[p] = "sleep" => delay[ClassOf(op[p])] > 0
    /\ \A cl \in Classes : slept[cl] => delay[cl] > 0

\* Two calls of one class returned exactly d > 0 apart, the second after a sleep.
C5_Witness ==
    \E cl \in Classes :
        /\ delay[cl] > 0 /\ slept[cl] /\ rets[cl][1] # 0
        /\ rets[cl][2] - rets[cl][1] = delay[cl]

\* C6: the classes are independent. The timestamp of a class is only ever the
\* return instant of a call of that class; a sleep is as long as the caller's
\* own class timestamp, interval and jitter make it; a caller whose own class
\* lock is free can enter whoever holds the other class's lock; and a step
\* that changes a class's timestamp or lock is a step of a caller of that class.
C6_StateInv ==
    /\ \A cl \in Classes : lastReq[cl] \in {0, rets[cl][2]}
    /\ \A p \in Procs :
         pc[p] = "sleep" =>
            LET cl == ClassOf(op[p])
            IN /\ mu[cl] = p
               /\ wake[p] <= lastReq[cl] + delay[cl] + JitterMax - 1
    /\ \A p \in Procs :
         (pc[p] = "wait" /\ mu[ClassOf(op[p])] = NoOne) => ENABLED ThrottleEnter(p)

C6_Step ==
    \A cl \in Classes :
        (lastReq'[cl] # lastReq[cl] \/ mu'[cl] # mu[cl]) =>
            \E p \in Procs :
                /\ pc[p] \in {"wait", "sleep"}
                /\ ClassOf(op[p]) = cl
                /\ pc'[p] # pc[p]

C6_ClassesIndependent == [](C6_StateInv) /\ [][C6_Step]_vars

\* A search-class caller and a profile-class caller sleep at once, each until
\* its own instant, with the two class timestamps different.
C6_Witness ==
    \E p, q \in Procs :
        /\ pc[p] = "sleep" /\ ClassOf(op[p]) = "search"
        /\ pc[q] = "sleep" /\ ClassOf(op[q]) = "profile"
        /\ wake[p] # wake[q]
        /\ lastReq["search"] # lastReq["profile"]

\* ------------------------------------------ C1 .. C4: the browser context

\* C1: at most one sign-and-fetch invocation runs against the browser context
\* at any instant, and the caller running it holds browserMu: a second
\* caller's invocation begins only after the first has returned and unlocked.
C1_OneFetchAtATime ==
    \A p, q \in Procs :
        InFetch(p) => /\ browserMu = p
                      /\ (InFetch(q) => q = p)

\* One caller is inside the evaluation while the other waits for the mutex.
C1_Witness ==
    \E p, q \in Procs :
        p # q /\ pc[p] = "bf_eval" /\ pc[q] = "bar_lock" /\ browserMu = p

C2_State ==
    \A p \in Procs :
        /\ (pc[p] = "bf_eval" /\ evalFailed) => hist[p].probed
        /\ hist[p].evals <= 1

C2_Step ==
    \A p \in Procs :
        /\ (pc[p] = "bf_eval" /\ pc'[p] = "bar_unlock" /\ res'[p].err # "nil") =>
              /\ ~signingReady'
              /\ res'[p].err = "SigningFailed"
              /\ hist'[p].evals = 1
        /\ (pc[p] = "fetched" /\ res[p].err = "SigningFailed" /\ pc'[p] = "idle") =>
              /\ ret'[p].done
              /\ ret'[p].err = "SigningFailed"
        /\ (pc[p] = "fetched" /\ res[p].err = "SigningFailed") =>
              pc'[p] \in {"fetched", "idle", "dead"}

\* C2: a failed signing evaluation stores NotReady in the step that produces
\* the call's error (SigningFailed); the failing call evaluates once and the
\* operation returns that error without another attempt; and a call that
\* reaches its evaluation while the last evaluation on the context failed has
\* performed the probe first.
C2_FailureResetsReadiness == [](C2_State) /\ [][C2_Step]_vars

\* After a failed evaluation, the next call has probed and stands before its
\* own evaluation.
C2_Witness ==
    \E p \in Procs :
        pc[p] = "bf_eval" /\ evalFailed /\ hist[p].probed /\ ~hist[p].readyAtLock

\* C3: a call that starts while Ready neither probes nor re-navigates, and
\* between two failed evaluations readiness is re-established at most once.
C3_RecoveryOnlyWhenNotReady ==
    /\ \A p \in Procs :
         hist[p].readyAtLock => ~hist[p].probed /\ ~hist[p].navigated
    /\ recoveries <= 1

\* After one recovery and no failure since, a later call that started Ready
\* stands before its evaluation without having probed.
C3_Witness ==
    \E p \in Procs :
        /\ pc[p] = "bf_eval" /\ hist[p].readyAtLock /\ ~hist[p].probed
        /\ recoveries = 1 /\ ~evalFailed

RecordsOf(ps, k) ==
    LET RECURSIVE R(_)
        R(i) == IF i = 0 THEN <<>> ELSE R(i - 1) \o NewRecords(i, ps[i].n)
    IN R(k)

\* After page i the walk is over: limit records are held, or page i handed
\* the walker no continuation.
Stops(ps, i, l) == Len(RecordsOf(ps, i)) >= l \/ ps[i].next = 0

WalkDone(p) == op[p] \in WalkOps /\ ret[p].done

C8_PartialResultsWithError ==
    \A p \in Procs :
        /\ \A i \in 1 .. Len(pages[p]) - 1 : pages[p][i].err = "nil"
        /\ (WalkDone(p) /\ pages[p] # <<>> /\ pages[p][Len(pages[p])].err # "nil") =>
              /\ ret[p].err = pages[p][Len(pages[p])].err
              /\ ret[p].videos = RecordsOf(pages[p], Len(pages[p]) - 1)
        /\ (pc[p] # "idle" /\ pages[p] # <<>>) => pages[p][Len(pages[p])].err = "nil"

\* The second page failed and the records of the first came back with the error.
C8_Witness ==
    \E p \in Procs :
        /\ WalkDone(p) /\ ret[p].err # "nil"
        /\ Len(pages[p]) = 2 /\ Len(ret[p].videos) >= 1

\* C9: inside the loop the accumulator is the whole of every fetched page; a
\* successful walk returns the first min(limit, total) records of that
\* concatenation, never more than limit.
C9_TruncatedOnceAfterLoop ==
    \A p \in Procs :
        LET all == RecordsOf(pages[p], Len(pages[p]))
        IN /\ (pc[p] \notin {"idle", "dead"} /\ op[p] \in WalkOps) => allVideos[p] = all
           /\ (WalkDone(p) /\ ret[p].err = "nil") =>
                 /\ ret[p].videos = SubSeq(all, 1, Min(limit[p], Len(all)))
                 /\ Len(ret[p].videos) <= limit[p]

\* One page larger than the limit came back cut to the limit.
C9_Witness ==
    \E p \in Procs :
        /\ WalkDone(p) /\ ret[p].err = "nil"
        /\ Len(pages[p]) = 1 /\ pages[p][1].n > limit[p] /\ limit[p] >= 1
        /\ Len(ret[p].videos) = limit[p]

\* C10: an operation whose last answer carried HTTP 429 returns an error
\* matching RateLimited, and one whose last answer carried 404 an error
\* matching NotFound.
C10_StatusClassified ==
    \A p \in Procs :
        ret[p].done =>
            /\ ret[p].status = 429 => ret[p].err = "RateLimited"
            /\ ret[p].status = 404 => ret[p].err = "NotFound"

\* ------------------------------------------- C11 .. C13: refused attempts

C11_State ==
    \A p \in Procs :
        (InFetch(p) /\ res[p].err = "BrowserNotReady") => hist[p].evals = 0 /\ ~hist[p].probed

C11_Step ==
    \A p \in Procs :
        /\ (pc[p] = "bf_check" /\ page = "nil" /\ pc'[p] # "bf_check") =>
              /\ res'[p].err = "BrowserNotReady"
              /\ pc'[p] = "bar_unlock"
              /\ UNCHANGED <<browser, page, signingReady, isLogged, msToken, jar>>
        /\ (pc[p] = "fetched" /\ res[p].err = "BrowserNotReady" /\ pc'[p] # "fetched") =>
              /\ pc'[p] = "idle"
              /\ ret'[p].done /\ ret'[p].err = "BrowserNotReady"
              /\ UNCHANGED <<browser, page, signingReady, isLogged, msToken, jar>>

\* C11: a sign-and-fetch that finds s.page nil fails with BrowserNotReady
\* without probing or evaluating and leaves browser, readiness and session as
\* they were; the walker that made it returns an error matching
\* BrowserNotReady, again changing none of them.
C11_NoBrowserNotReady == [](C11_State) /\ [][C11_Step]_vars

\* SearchByHashtag came back with BrowserNotReady from a Scraper whose browser
\* was closed after having been launched.
C11_Witness ==
    \E p \in Procs :
        /\ ret[p].done /\ ret[p].err = "BrowserNotReady" /\ op[p] = "SearchByHashtag"
        /\ page = "nil" /\ launches >= 1

C12_State == apc = "cl_browser" => page = "nil"

C12_Step ==
    /\ (apc = "idle" /\ apc' = "cl_browser" /\ page = "nil") =>
          UNCHANGED <<scraperVars, rateVars, envVars, aerr, callVars, histVars,
                      ctxVars, netVars, sessVars>>
    /\ (apc = "cl_browser" /\ apc' = "idle" /\ browser = 0) =>
          /\ aerr' = "nil"
          /\ UNCHANGED <<scraperVars, rateVars, envVars, callVars, histVars,
                         ctxVars, netVars, sessVars>>
    /\ (apc = "cl_browser" /\ apc' = "idle" /\ aerr' = "nil") =>
          page' = "nil" /\ browser' = 0

\* C12: a Close that finds neither page nor browser returns nil and changes
\* nothing; a Close that returns nil leaves page and browser nil, so that the
\* Close after it is again such a no-op, whatever ran before.
C12_CloseIdempotent == [](C12_State) /\ [][C12_Step]_vars

\* A Close is under way on a Scraper whose browser had been launched and has
\* been closed already.
C12_Witness ==
    apc = "cl_browser" /\ page = "nil" /\ browser = 0 /\ launches >= 1 /\ unclosed = 0

\* A call of operation o by p that is refused in its first step.
Refusal(p, o) ==
    /\ \/ StartSearch(p, LifeEnv)
       \/ StartGetUser(p)
    /\ op'[p] = o
    /\ ret'[p].done /\ ret'[p].err = "Required"

C13_State ==
    /\ \A p \in Procs :
          (ret[p].done /\ ret[p].err = "Required") =>
              pages[p] = <<>> /\ ret[p].videos = <<>> /\ ~ret[p].user
    /\ pc[Walker] = "idle" =>
          \A o \in WalkOps \cup {"GetUser"} : ENABLED Refusal(Walker, o)

C13_Step ==
    \A p \in Procs :
        (pc[p] # pc'[p] \/ op[p] # op'[p] \/ ret[p] # ret'[p]) =>
            \/ ~(ret'[p].done /\ ret'[p].err = "Required")
            \/  /\ pc[p] = "idle" /\ pc'[p] = "idle"
                /\ UNCHANGED <<scraperVars, rateVars, envVars, ownerVars, wake, hist,
                               evalFailed, recoveries, readyBasis, rets, slept,
                               crashed, ctxVars, netVars, sessVars>>

\* C13: each of the three operations can be called with an empty argument
\* whenever the caller is idle; the call then returns its error in its first
\* step, in which no lock is taken, no rate window, readiness or session field
\* changes and nothing is sent; a refused call has fetched no page.
C13_EmptyArgumentRefused == [](C13_State) /\ [][C13_Step]_vars

\* A refused SearchByHashtag on an initialised Scraper whose rate window,
\* readiness and session are as the calls before it left them.
C13_Witness ==
    \E p \in Procs :
        /\ ret[p].done /\ ret[p].err = "Required" /\ op[p] = "SearchByHashtag"
        /\ page = "open" /\ signingReady /\ rets["search"][2] # 0

\* ------------------------------------------- C14, C15: cancellation, hangs

\* C14: once the ctx of caller p is cancelled, p acquires the context mutex for
\* no further fetch and begins no throttle sleep.
C14_CancelStopsFetching ==
    [][\A p \in Procs :
          cancelled[p] =>
              /\ ~(pc[p] = "bar_lock" /\ pc'[p] = "bf_check")
              /\ ~(pc[p] = "wait" /\ pc'[p] = "sleep")]_vars

\* The steps a caller takes between Lock and Unlock of browserMu.
HolderStep(p) ==
    \/ BfCheck(p)
    \/ BfLoad(p)
    \/ BfProbe(p)
    \/ BfNavigate(p)
    \/ BfStable(p)
    \/ BfEval(p, AbortEnv)
    \/ BrowserUnlock(p)

\* C15: whoever holds browserMu can take its next step towards the Unlock,
\* whether or not the browser still answers.
C15_HolderNeverStuck ==
    \A p \in Procs : browserMu = p => ENABLED HolderStep(p)

\* ------------------------------------------------ C16 .. C18: pagination

\* C16: every turn of a walker's loop that goes on to another fetch has moved
\* the walk forward (a longer accumulator or another cursor). A turn that
\* leaves both as they were is taken again, identically, for as long as the
\* remote repeats its answer, and the walker does not return.
C16_EveryTurnAdvances ==
    [][\A p \in Procs :
          (pc[p] = "fetched" /\ stage[p] = "items" /\ pc'[p] = "wait") =>
              \/ Len(allVideos'[p]) > Len(allVideos[p])
              \/ cursor'[p] # cursor[p]]_vars

\* The has-more flags that say "no further page".
NoMoreFlags == {"absent", "0", "false"}

\* C17: a page that carries the has-more flag of its endpoint (1 on the keyword
\* search, true on the hashtag item list) and leaves the walk short of limit
\* is followed by another fetch, whatever cursor comes with it.
C17_HasMoreContinues ==
    \A p \in Procs :
        \A k \in 1 .. Len(pages[p]) :
            LET e == pages[p][k]
            IN (/\ e.err = "nil"
                /\ e.flag = (IF op[p] = "SearchVideos" THEN "1" ELSE "true")
                /\ SumSizes(SubSeq(pages[p], 1, k)) < limit[p]
                /\ k = Len(pages[p]))
               => pc[p] \notin {"idle", "dead"}

C19_LoggedIffAuthed == isLogged <=> authed

\* C20: after SetCookies(cs) the jar holds cs and nothing else.
C20_SetReplaces ==
    [][\A cs \in CookieSets : SetCookiesWith(cs) => jar' = cs]_vars

\* C21: the cached token is the value of the msToken cookie in the jar, and
\* empty when the jar holds none.
C21_TokenIsCookie == msToken = jar["msToken"]

\* C22: whatever state a Scraper is in, the file SaveCookies writes from it,
\* loaded into a new Scraper, gives that one the same cookies and the same
\* token, and makes it logged in.
C22_RoundTrip ==
    LET b == LoadedOnNew(SavedFile(jar))
    IN b.jar = jar /\ b.msToken = msToken /\ b.isLogged

\* C23: SetProxy returns nil for the empty string and for http, https and
\* socks5 URLs, and then the recorded proxy is its argument and the transport
\* dials through it (directly for the empty string); for an unparsable URL or
\* another scheme it returns an error and leaves the recorded proxy and the
\* transport as they were; so the recorded proxy is always the argument of
\* the last call that returned nil.
C23_Accepted == {a \in ProxyArgs : a = "" \/ ParseProxy(a).scheme \in {"http", "https", "socks5"}}

C23_Step ==
    \A a \in ProxyArgs :
        SetProxyWith(a) =>
            IF a \in C23_Accepted
            THEN /\ ~proxyErr' /\ proxy' = a
                 /\ transport'.addr = a
                 /\ (transport'.via = "direct") = (a = "")
            ELSE proxyErr' /\ UNCHANGED <<proxy, transport>>

C23_SetProxy == [](proxy = proxyOk) /\ [][C23_Step]_vars

\* A rejected call has come after an accepted one that set a proxy.
C23_Witness == proxyErr /\ proxy # "" /\ transport.via = "socks5"

\* C24: when a profile response is handed to the extractor, a document
\* without the embedded-data element fails with InvalidResponse, one whose
\* embedded data does not parse fails with an error that matches neither
\* InvalidResponse nor NotFound, one with an empty user object fails with
\* NotFound, and a user record is returned only for a document whose user
\* object has a unique id.
C24_Step ==
    \A doc \in Docs :
        (/\ HttpResponseWith(Walker, SessEnv, doc)
         /\ ret'[Walker].status # 0
         /\ Classify(ret'[Walker].status) = "nil")
        => LET r == ret'[Walker] IN
           /\ doc \in {"nomarker", "unclosed"} => r.err = "InvalidResponse"
           /\ doc = "unparsable" => r.err \notin {"nil", "InvalidResponse", "NotFound"}
           /\ doc = "emptyuser" => r.err = "NotFound"
           /\ r.user <=> doc = "user"
           /\ r.user <=> r.err = "nil"

C24_Extraction == [][C24_Step]_vars

\* A profile request has failed on a page whose embedded data did not parse.
C24_Witness ==
    /\ ret[Walker].done /\ op[Walker] = "GetUser" /\ ret[Walker].status = 200
    /\ ret[Walker].err = "Other"

\* C25: a profile request answered with a status outside 2xx returns an
\* error and no user record, whatever document the response carries.
C25_NonSuccessFails ==
    \A p \in Procs :
        (/\ ret[p].done /\ op[p] = "GetUser"
         /\ ret[p].status \in Statuses \ {200})
        => ret[p].err # "nil" /\ ~ret[p].user

\* C26: a profile lookup is never at a stage of the browser path and none of
\* its steps changes the browser, the page, the browser lock or readiness;
\* whatever the browser's state and whoever holds its lock, a caller can
\* start a lookup and a started lookup can take its next step, also while
\* the other caller's request is in flight.
C26_UserStages == {"idle", "wait", "do_request", "http_wait"}

C26_GetUserStep(p) ==
    \/ StartGetUser(p)
    \/ /\ op[p] = "GetUser"
       /\ ThrottleEnter(p) \/ DoRequest(p) \/ HttpResponse(p, ConcEnv)

C26_Open ==
    \A p \in Procs :
        /\ op[p] = "GetUser" => pc[p] \in C26_UserStages
        /\ pc[p] = "idle" => ENABLED StartGetUser(p)
        /\ (op[p] = "GetUser" /\ pc[p] = "wait") => ENABLED ThrottleEnter(p)
        /\ pc[p] = "do_request" => ENABLED DoRequest(p)
        /\ pc[p] = "http_wait" => ENABLED HttpResponse(p, ConcEnv)

C26_Step ==
    \A p \in Procs :
        C26_GetUserStep(p) => UNCHANGED <<browser, page, browserMu, signingReady>>

C26_ProfileDirect == []C26_Open /\ [][C26_Step]_vars

\* A profile request is in flight while the other caller holds the browser
\* lock in the middle of a sign-and-fetch.
C26_Witness ==
    /\ browserMu = Searcher /\ pc[Searcher] = "bf_eval"
    /\ op["p1"] = "GetUser" /\ pc["p1"] = "http_wait"

\* Two profile requests are in flight at once, with no browser.
C26_Both == browser = 0 /\ \A p \in Procs : pc[p] = "http_wait"

\* C27: between the owner's calls at most one launched browser is unclosed,
\* and when one is, the Scraper references a browser.
C27_OneBrowser ==
    apc = "idle" => /\ unclosed <= 1
                    /\ unclosed = 1 => browser # 0

\* C28: a sign-and-fetch that found a page and failed hands back an error
\* that matches SigningFailed.
C28_SigningFailures ==
    \A p \in Procs :
        (pc[p] = "bar_unlock" /\ res[p].err \notin {"nil", "BrowserNotReady"})
        => res[p].err = "SigningFailed"

\* C29: a caller of a search operation arrives at the start of a browser
\* request only from the return of its own throttle call.
C29_Step ==
    \A p \in Procs :
        (pc'[p] = "bar_lock" /\ pc[p] # "bar_lock") => pc[p] \in {"wait", "sleep"}

C29_ThrottledRequests == [][C29_Step]_vars

\* C30: once a throttle call of a class has returned, the class timestamp is
\* the instant the latest such call returned, whatever the class interval.
C30_TimestampIsReturn ==
    \A cl \in Classes : rets[cl][2] # 0 => lastReq[cl] = rets[cl][2]

\* ------------------------------------------------------------- C31 .. C40

\* C31: under every class interval, the first throttle call of a
\* class returns without sleeping and records the instant, and a later call
\* sleeps exactly interval + jitter - elapsed when that is positive, with
\* 0 <= jitter < JitterMax, and else returns at once and records the instant.
C31_EnterAsAlgorithm(p) ==
    LET cl == ClassOf(op[p])
        d  == delay[cl]
        el == now - lastReq[cl]
    IN IF lastReq[cl] = 0
       THEN pc'[p] # "sleep" /\ lastReq'[cl] = now
       ELSE \E j \in 0 .. JitterMax - 1 :
              IF d + j - el > 0
              THEN pc'[p] = "sleep" /\ wake'[p] = now + (d + j - el)
              ELSE pc'[p] # "sleep" /\ lastReq'[cl] = now

C31_Algorithm ==
    [][\A p \in Procs : ThrottleEnter(p) => C31_EnterAsAlgorithm(p)]_vars

\* C32: after a response on the browser-mediated transport that carries a
\* token, the session token is that response's token.
C32_Step ==
    \A p \in Procs, tok \in ConcEnv.tokens :
        (BfEvalWith(p, ConcEnv, tok) /\ res'[p].err = "nil" /\ tok # 0)
        => msToken' = tok

C32_TokenRefreshed == [][C32_Step]_vars

\* C33: a decoded page whose has-more flag is a non-zero integer (keyword
\* search) or true (hashtag) counts as having more: the cursor the walker
\* goes on with is the cursor that page returned.
C33_More(o, flag) ==
    IF o = "SearchVideos" THEN flag \in {"1", "2"} ELSE flag = "true"

C33_NonZeroIsMore ==
    \A p \in Procs :
        \A k \in DOMAIN pages[p] :
            LET e == pages[p][k]
            IN (op[p] \in WalkOps /\ e.err = "nil" /\ C33_More(op[p], e.flag))
               => e.next = e.cur

\* C34: while a SearchByHashtag call resolves the challenge ID it has fetched
\* no item-list page and is not in a throttle, and only the resolution ends
\* that stage; a resolution that failed or yielded an empty ID makes the call
\* return an error (NotFound for the empty ID) with no records and no page
\* fetched, and no other resolution makes it return an error.
C34_Failed(r) == r.err # "nil" \/ r.kind # "json" \/ r.id = 0

C34_Resolving ==
    \A p \in Procs :
        (op[p] = "SearchByHashtag" /\ stage[p] = "detail" /\ pc[p] # "idle")
        => pages[p] = <<>> /\ pc[p] \notin {"wait", "sleep"}

C34_Step ==
    \A p \in Procs :
        /\ (stage[p] = "detail" /\ pc[p] # "idle" /\ stage'[p] # "detail")
           => ChallengeDone(p)
        /\ ChallengeDone(p) =>
              IF C34_Failed(res[p])
              THEN /\ pc'[p] = "idle" /\ ret'[p].done
                   /\ ret'[p].err # "nil" /\ ret'[p].videos = <<>>
                   /\ pages'[p] = <<>>
                   /\ (res[p].err = "nil" /\ res[p].kind = "json")
                      => ret'[p].err = "NotFound"
              ELSE ret'[p].err = "nil"

C34_ResolveFirst == []C34_Resolving /\ [][C34_Step]_vars

\* A SearchByHashtag call has returned NotFound for an answer that decoded
\* and held an empty ID, having fetched no page.
C34_Witness ==
    /\ op[Walker] = "SearchByHashtag" /\ ret[Walker].done
    /\ ret[Walker].err = "NotFound" /\ ret[Walker].status = 200
    /\ pages[Walker] = <<>> /\ rets["search"][2] = 0

\* C35: within one walker call the first page fetch asks for cursor 0 and
\* every later fetch asks for the cursor the page fetched just before it
\* returned.
C35_CursorChain ==
    \A p \in Procs :
        \A k \in DOMAIN pages[p] :
            pages[p][k].asked = IF k = 1 THEN 0 ELSE pages[p][k - 1].cur

\* A call has fetched two pages, the second with the cursor of the first.
C35_Witness ==
    /\ op[Walker] \in WalkOps /\ Len(pages[Walker]) >= 2
    /\ pages[Walker][1].cur # 0
    /\ pages[Walker][2].asked = pages[Walker][1].cur

\* C36: a LoadCookies on a file that cannot be read or that holds no JSON
\* returns an error and leaves the cookies, the token and the logged-in flag
\* as they were.
C36_Step ==
    \A f \in Files :
        (LoadCookiesFrom(f) /\ f.kind # "cookies")
        => aerr' # "nil" /\ UNCHANGED <<jar, msToken, isLogged>>

C36_FailedLoadKeeps == [][C36_Step]_vars

\* A load has failed on an unreadable file, on a Scraper that holds cookies
\* and a token and is not logged in.
C36_Witness ==
    /\ aerr = "IO" /\ apc = "idle"
    /\ jar # NoCookies /\ msToken # 0 /\ ~isLogged

\* C37: between the owner's calls, whenever readiness is Ready the Scraper
\* has a page.
C37_ReadyHasPage == (apc = "idle" /\ signingReady) => page # "nil"

\* C38: when InitBrowser returns an error, readiness is NotReady.
C38_Step ==
    (/\ IbLaunch \/ aop = "InitBrowser"
     /\ apc' = "idle" /\ aerr' # "nil")
    => ~signingReady'

C38_FailedInitNotReady == [][C38_Step]_vars

\* C39: a sign-and-fetch that passed the check for a page runs against a
\* page: none of its later stages finds the page torn down.
C39_FetchHasPage ==
    \A p \in Procs :
        pc[p] \in {"bf_load", "bf_probe", "bf_nav", "bf_stable", "bf_eval"}
        => page # "nil"

\* C40: a walker call with a limit of 0 or less never aborts.
C40_NoAbort ==
    \A p \in Procs :
        (op[p] \in WalkOps /\ limit[p] <= 0) => pc[p] # "dead"
====
